---- MODULE Spec2Model ----
(***************************************************************************)
(* Monoscope: a terminal video player.  main() starts a decoder process,   *)
(* reads fixed-size raw RGB frames from its output pipe through a          *)
(* bufio.Reader, renders each frame as coloured ASCII text and paces the   *)
(* loop at FPS frames per second.                                          *)
(***************************************************************************)
EXTENDS Integers, Sequences, FiniteSets, TLC

(***************************************************************************)
(* float64 arithmetic.  Every value the brightness computation produces is *)
(* a non-negative number below 2^16 and a multiple of 2^-80, so a float64  *)
(* is held exactly as six limbs of 16 bits, least significant first: limb  *)
(* 6 is the integer part, limbs 1..5 the fraction.  Each operation is the  *)
(* exact operation followed by IEEE-754 rounding to 53 significant bits,   *)
(* ties to even.                                                           *)
(***************************************************************************)
Base == 2^16

FixZero == <<0, 0, 0, 0, 0, 0>>

\* float64(n) for a small non-negative integer n (exact).
FixInt(n) == [FixZero EXCEPT ![Len(FixZero)] = n]

RECURSIVE MulFrom(_, _, _, _)
MulFrom(a, k, i, carry) ==
    IF i > Len(a) THEN <<>>
    ELSE LET v == a[i] * k + carry
         IN  <<v % Base>> \o MulFrom(a, k, i + 1, v \div Base)

\* The exact product of a and the small integer k.
MulSmall(a, k) == MulFrom(a, k, 1, 0)

RECURSIVE AddFrom(_, _, _, _)
AddFrom(a, b, i, carry) ==
    IF i > Len(a) THEN <<>>
    ELSE LET v == a[i] + b[i] + carry
         IN  <<v % Base>> \o AddFrom(a, b, i + 1, v \div Base)

\* The exact sum of a and b.
AddFix(a, b) == AddFrom(a, b, 1, 0)

RECURSIVE DivFrom(_, _, _, _)
DivFrom(a, d, i, rem) ==
    IF i = 0 THEN [q |-> <<>>, r |-> rem]
    ELSE LET v    == rem * Base + a[i]
             rest == DivFrom(a, d, i - 1, v % d)
         IN  [q |-> Append(rest.q, v \div d), r |-> rest.r]

\* a divided by the small integer d, truncated to a multiple of 2^-80, with
\* the remainder (non-zero: the quotient is inexact).
DivSmall(a, d) == DivFrom(a, d, Len(a), 0)

Bit(a, i) == (a[(i \div 16) + 1] \div (2^(i % 16))) % 2

NBits(a) == 16 * Len(a)

\* Number of significant bits of a (0 for zero).
BitLen(a) ==
    LET S == {i \in 0..(NBits(a) - 1) : Bit(a, i) = 1}
    IN  IF S = {} THEN 0 ELSE 1 + CHOOSE i \in S : \A j \in S : j <= i

\* 2^i as a fixed-point value.
FixBit(i) == [k \in 1..Len(FixZero) |-> IF k = (i \div 16) + 1 THEN 2^(i % 16) ELSE 0]

\* a with its bits below bit d cleared.
FixTrunc(a, d) ==
    [k \in 1..Len(a) |->
        IF k < (d \div 16) + 1 THEN 0
        ELSE IF k = (d \div 16) + 1 THEN a[k] - (a[k] % (2^(d % 16)))
        ELSE a[k]]

\* IEEE-754 round-to-nearest-even of the exact value a (+ a non-zero amount
\* below its last bit when sticky) to the 53-bit significand of a float64.
Round53(a, sticky) ==
    LET d == BitLen(a) - 53
    IN  IF d <= 0 THEN a
        ELSE LET guard == Bit(a, d - 1) = 1
                 below == sticky \/ \E i \in 0..(d - 2) : Bit(a, i) = 1
                 odd   == Bit(a, d) = 1
                 t     == FixTrunc(a, d)
             IN  IF guard /\ (below \/ odd) THEN AddFix(t, FixBit(d)) ELSE t

\* The float64 nearest to the decimal constant num/den.
FloatConst(num, den) ==
    LET x == DivSmall(FixInt(num), den) IN Round53(x.q, x.r # 0)

\* float64 product, sum, quotient; and the fused multiply-add c*k + a with
\* its single rounding.
FMul(c, k) == Round53(MulSmall(c, k), FALSE)
FAdd(a, b) == Round53(AddFix(a, b), FALSE)
FDiv(a, d) == LET x == DivSmall(a, d) IN Round53(x.q, x.r # 0)
FMulAdd(c, k, a) == Round53(AddFix(MulSmall(c, k), a), FALSE)

\* int(x) for a non-negative float64 x: truncation.
FloatToInt(a) == a[Len(a)]

(***************************************************************************)
(* The glyph renderer (main.go:16-60).                                     *)
(***************************************************************************)
ASCII_CHARS == <<" ", ".", ":", "-", "=", "+", "*", "#", "%", "@">>

FPS == 24

\* brightness := (0.299*float64(r8) + 0.587*float64(g8) + 0.114*float64(b8)) / 255.0
\* Go lets an implementation fuse x*y + z into one operation with a single
\* rounding (the gc compiler does on arm64, ppc64, s390x, riscv64 and with
\* GOAMD64=v3) and evaluates each operation separately otherwise: fused says
\* which build this is.  A fusing build computes the first product alone and
\* folds each later product into the running sum.
Brightness(r, g, b, fused) ==
    LET wr == FloatConst(299, 1000)
        wg == FloatConst(587, 1000)
        wb == FloatConst(114, 1000)
        sum == IF fused
               THEN FMulAdd(wb, b, FMulAdd(wg, g, FMul(wr, r)))
               ELSE FAdd(FAdd(FMul(wr, r), FMul(wg, g)), FMul(wb, b))
    IN  FDiv(sum, 255)

\* GlyphIndex scaled by the number of glyphs instead of the last index, and
\* not clamped.
GlyphIndexByLen(brightness) == FloatToInt(FMul(brightness, Len(ASCII_CHARS)))

\* GlyphIndex counted from the dense end of the gradient.
GlyphIndexFromDense(brightness) ==
    Len(ASCII_CHARS) - 1 - FloatToInt(FMul(brightness, Len(ASCII_CHARS) - 1))

\* The index brightnessToASCII computes, before it is used on ASCII_CHARS
\* (0-based, as in the source).
GlyphIndex(brightness) ==
    LET idx == FloatToInt(FMul(brightness, Len(ASCII_CHARS) - 1))
    IN  IF idx >= Len(ASCII_CHARS) THEN Len(ASCII_CHARS) - 1 ELSE idx

\* ASCII_CHARS[idx]; an index outside the string is a run-time panic in Go.
brightnessToASCII(brightness) ==
    LET idx == GlyphIndex(brightness)
    IN  IF idx \in 0..(Len(ASCII_CHARS) - 1) THEN ASCII_CHARS[idx + 1] ELSE "panic"

ESC == "ESC"

Digits == <<"0", "1", "2", "3", "4", "5", "6", "7", "8", "9">>

\* fmt's %d of a non-negative integer, as a sequence of characters.
RECURSIVE Dec(_)
Dec(n) == IF n < 10 THEN <<Digits[n + 1]>> ELSE Dec(n \div 10) \o <<Digits[(n % 10) + 1]>>

\* fmt.Sprintf("\033[38;2;%d;%d;%dm", r, g, b)
rgbToAnsi(r, g, b) ==
    <<ESC, "[", "3", "8", ";", "2", ";">> \o Dec(r) \o <<";">> \o Dec(g)
        \o <<";">> \o Dec(b) \o <<"m">>

\* "\033[0m\n"
ResetLine == <<ESC, "[", "0", "m", "\n">>

\* An image.RGBA: image.Rect(0, 0, width, height) puts the smaller of 0 and
\* height in Min.Y, and pix holds the stored colour.RGBA of each point.
Min0(a) == IF a < 0 THEN a ELSE 0
Max0(a) == IF a > 0 THEN a ELSE 0

\* color.RGBA.RGBA(): each 8-bit channel v widened to 16 bits as v | v<<8;
\* frameToASCII takes it back with uint8(v>>8).
Chan16(v) == v * 257
Chan8(v16) == (v16 \div 256) % 256

\* CellText with the glyph written before the colour escape.
CellTextGlyphFirst(c, fusedBuild) ==
    LET r8 == Chan8(Chan16(c[1]))
        g8 == Chan8(Chan16(c[2]))
        b8 == Chan8(Chan16(c[3]))
    IN  <<brightnessToASCII(Brightness(r8, g8, b8, fusedBuild))>> \o rgbToAnsi(r8, g8, b8)

\* The text of one pixel: its colour escape and its glyph.
CellText(c, fusedBuild) ==
    LET r8 == Chan8(Chan16(c[1]))
        g8 == Chan8(Chan16(c[2]))
        b8 == Chan8(Chan16(c[3]))
    IN  rgbToAnsi(r8, g8, b8) \o <<brightnessToASCII(Brightness(r8, g8, b8, fusedBuild))>>

RECURSIVE RowText(_, _, _, _)
RowText(im, y, x, fusedBuild) ==
    IF x >= im.x1 THEN ResetLine
    ELSE CellText(im.pix[<<x, y>>], fusedBuild) \o RowText(im, y, x + 1, fusedBuild)

RECURSIVE RowsText(_, _, _)
RowsText(im, y, fusedBuild) ==
    IF y >= im.y1 THEN <<>>
    ELSE RowText(im, y, im.x0, fusedBuild) \o RowsText(im, y + 1, fusedBuild)

frameToASCII(im, fusedBuild) == RowsText(im, im.y0, fusedBuild)

\* FrameImage with the pixels taken column by column.
FrameImageColumnMajor(d, width, height) ==
    [x0 |-> 0, x1 |-> width, y0 |-> Min0(height), y1 |-> Max0(height),
     pix |-> [p \in (0..(width - 1)) \X (Min0(height)..(Max0(height) - 1)) |->
                LET idx == 3 * (p[1] * height + p[2])
                IN  IF p[2] >= 0 /\ p[2] < height
                    THEN <<d[idx + 1], d[idx + 2], d[idx + 3], 255>>
                    ELSE <<0, 0, 0, 0>>]]

\* The image readRawFrame builds from the width*height*3 bytes of d.
FrameImage(d, width, height) ==
    [x0 |-> 0, x1 |-> width, y0 |-> Min0(height), y1 |-> Max0(height),
     pix |-> [p \in (0..(width - 1)) \X (Min0(height)..(Max0(height) - 1)) |->
                LET idx == 3 * (p[2] * width + p[1])
                IN  IF p[2] >= 0 /\ p[2] < height
                    THEN <<d[idx + 1], d[idx + 2], d[idx + 3], 255>>
                    ELSE <<0, 0, 0, 0>>]]

(***************************************************************************)
(* Bounds of the model.                                                    *)
(***************************************************************************)
\* The decoder writes at most MaxBytes bytes before it closes its output.
MaxBytes == 13
\* term.GetSize reports 0..MaxCols columns and 0..MaxRows rows.
MaxCols == 2
MaxRows == 3
\* The fallback geometry (160 x 50 in getTerminalSize), scaled to the streams
\* the model can hold.
FallbackWidth == 2
FallbackHeight == 2
\* The size of bufio.Reader's buffer (4096 in bufio), scaled likewise.
BufSize == 4
\* readRawFrame is called at most MaxCalls times.
MaxCalls == 4
\* time.Sleep(d) returns after d .. d + MaxOversleep nanoseconds.
MaxOversleep == 1

\* time.Microsecond, in nanoseconds.
Microsecond == 1000

\* frameDuration := time.Duration(1000000/FPS) * time.Microsecond
frameDuration == (1000000 \div FPS) * Microsecond

\* How long a read of the pipe may block, and how long rendering and writing
\* a frame may take.
ReadDelays == {0, frameDuration \div 2}
\* Reads stop blocking once an iteration has taken this long.
MaxElapsed == frameDuration + frameDuration \div 2
RenderDelays == {Microsecond, frameDuration \div 2, frameDuration}

\* The i-th byte (from 1) the decoder writes: all different, so that a byte
\* out of place shows.
StreamByte(i) == (i * 37 + 7) % 256

\* The decoder's output: 0..MaxBytes bytes, then it closes.
Streams == {[i \in 1..n |-> StreamByte(i)] : n \in 0..MaxBytes}

\* The pixels the glyph renderer is tried on: every ChannelStep-th value of
\* each channel, and 255.
ChannelStep == 17
Channels == {c \in 0..255 : c % ChannelStep = 0} \cup {255}

(***************************************************************************)
(* State.                                                                  *)
(***************************************************************************)
VARIABLES
    fused,        \* the build fuses multiply-add (see Brightness)
    nargs,        \* len(os.Args)
    stream,       \* the bytes the decoder writes to its output before closing it
    pos,          \* how many of them have been read from the pipe
    now,          \* the monotonic clock, in nanoseconds, counted from the
                  \* start of the current loop iteration
    pc,           \* where main is
    WIDTH, HEIGHT,
    scaleArg,     \* the width and height in the decoder's scale filter, <<>>
                  \* until the command is built
    pipes,        \* the decoder's pipes created so far
    started,      \* cmd.Start() has succeeded
    killIssued,   \* cmd.Process.Kill() has been called
    drainer,      \* the goroutine reading the decoder's stderr
    defers,       \* main's deferred calls, in the order they were deferred
    buf,          \* bufio.Reader: bytes read from the pipe and not yet handed out
    data,         \* readRawFrame: the bytes accumulated so far (n = Len(data))
    nreads,       \* reader.Read calls made by the current readRawFrame call
    calls,        \* readRawFrame calls made so far
    lastRead,     \* what the last readRawFrame call returned: "frame" or "err"
    img,          \* the image the last readRawFrame call returned
    frameCount,
    startTime, elapsed,
    spacing,      \* the time from the previous iteration's start to this one's
                  \* (-1 in the first iteration)
    sleepFor,     \* the duration passed to time.Sleep in this iteration, 0: none
    sleeps,       \* time.Sleep calls made in this iteration
    tty,          \* what has been written to os.Stdout
    errOut,       \* what has been written to os.Stderr
    exitCode,     \* the process's exit code, -1 while it runs
    interruptedAt, \* where main was when an interrupt signal ended the process
    decoder,      \* what the decoder process is doing: "run", "writeErr" (in a
                  \* write to its stderr), "writeOut" (in a write to its
                  \* stdout), "closed" (it has closed both)
    errPipe,      \* bytes in the stderr pipe, written and not yet read
    outPipe,      \* bytes in the stdout pipe, written and not yet read
    diag,         \* bytes the decoder has written to its stderr so far
    pixel, glyph, \* the glyph renderer on its own: a pixel and its cell
    prev          \* the pixel rendered before this one, and its cell

vars == <<fused, nargs, stream, pos, now, pc, WIDTH, HEIGHT, scaleArg, pipes, started,
          killIssued,
          drainer, defers, buf, data, nreads, calls, lastRead, img, frameCount,
          startTime, elapsed, spacing, sleepFor, sleeps, tty, errOut,
          exitCode, interruptedAt, decoder, errPipe, outPipe, diag, pixel, glyph,
          prev>>

NoImage == FrameImage(<<>>, 0, 0)
NoGlyph == [idx |-> -1, char |-> "", text |-> <<>>, lum |-> FixZero]
NoPrev == [pixel |-> <<0, 0, 0>>, glyph |-> NoGlyph]

\* What is written to the terminal, one entry per Print call.
Out(kind, text, n) == [kind |-> kind, text |-> text, n |-> n]
Usage == Out("usage", <<>>, 0)
EnterAlt == Out("enterAlt", <<ESC, "[?1049h", ESC, "[?25l">>, 0)
ExitAlt == Out("exitAlt", <<ESC, "[?1049l", ESC, "[?25h">>, 0)
Newline == Out("newline", <<"\n">>, 0)
FrameOut(text) == Out("frame", <<ESC, "[", "H">> \o text, 0)
StatusOut(n) == Out("status", <<>>, n)
SummaryOut(n) == Out("summary", <<ESC, "[H", ESC, "[2J", ESC, "[32m">>, n)

ProgramInit ==
    /\ pos = 0
    /\ now = 0
    /\ pc = "args"
    /\ WIDTH = 0 /\ HEIGHT = 0
    /\ scaleArg = <<>>
    /\ pipes = {}
    /\ started = FALSE /\ killIssued = FALSE
    /\ drainer = "none"
    /\ defers = <<>>
    /\ buf = <<>> /\ data = <<>> /\ nreads = 0 /\ calls = 0
    /\ lastRead = "none"
    /\ img = NoImage
    /\ frameCount = 0
    /\ startTime = 0 /\ elapsed = 0 /\ spacing = -1 /\ sleepFor = 0 /\ sleeps = 0
    /\ tty = <<>> /\ errOut = <<>>
    /\ exitCode = -1
    /\ interruptedAt = "none"
    /\ decoder = "run" /\ errPipe = 0 /\ outPipe = 0 /\ diag = 0

Init ==
    /\ fused \in BOOLEAN
    /\ nargs \in {1, 2}
    /\ stream \in Streams
    /\ ProgramInit
    /\ pixel = <<0, 0, 0>> /\ glyph = NoGlyph /\ prev = NoPrev

decVars == <<decoder, errPipe, outPipe, diag>>
envVars == <<fused, nargs, stream, decVars>>
glyphVars == <<pixel, glyph, prev>>
readVars == <<pos, buf, data, nreads, calls, lastRead, img>>
timeVars == <<now, startTime, elapsed, spacing, sleepFor, sleeps>>
procVars == <<scaleArg, pipes, started, killIssued, drainer, defers>>

\* os.Exit(code): the process ends at once; deferred calls do not run.
Exit(code) == pc' = "exited" /\ exitCode' = code

\* What the deferred calls do when main returns or panics (last deferred
\* first): the restore closure prints the exit sequence and a line break,
\* cmd.Process.Kill() kills the decoder.
TtyAfterDefers ==
    IF \E i \in 1..Len(defers) : defers[i] = "restore"
    THEN tty \o <<ExitAlt, Newline>> ELSE tty
KillAfterDefers ==
    killIssued \/ \E i \in 1..Len(defers) : defers[i] = "kill"

(***************************************************************************)
(* main (main.go:85-171).                                                  *)
(***************************************************************************)
\* if len(os.Args) < 2 { usage; os.Exit(1) }
CheckArgs ==
    /\ pc = "args"
    /\ IF nargs < 2
       THEN tty' = Append(tty, Usage) /\ Exit(1)
       ELSE tty' = tty /\ pc' = "size" /\ exitCode' = exitCode
    /\ UNCHANGED <<envVars, glyphVars, readVars, timeVars, procVars, WIDTH, HEIGHT,
                   frameCount, errOut, interruptedAt>>

\* What term.GetSize can return.
TermSizes ==
    {[err |-> TRUE, w |-> 0, h |-> 0]}
        \cup {[err |-> FALSE, w |-> w, h |-> h] : w \in 0..MaxCols, h \in 0..MaxRows}

getTerminalSize(size) ==
    IF size.err THEN <<FallbackWidth, FallbackHeight>> ELSE <<size.w, size.h - 2>>

\* WIDTH, HEIGHT := getTerminalSize(); cmd := exec.Command(...)
ResolveGeometry ==
    /\ pc = "size"
    /\ \E size \in TermSizes :
          /\ WIDTH' = getTerminalSize(size)[1]
          /\ HEIGHT' = getTerminalSize(size)[2]
          /\ scaleArg' = <<getTerminalSize(size)[1], getTerminalSize(size)[2]>>
    /\ pc' = "stdoutPipe"
    /\ UNCHANGED <<envVars, glyphVars, readVars, timeVars, pipes, started, killIssued,
                   drainer, defers, frameCount, tty, errOut, exitCode, interruptedAt>>

\* StartupFails without the os.Exit(1): the error is reported and main goes
\* on to playback.
StartupFailsGoesOn(msg) ==
    /\ errOut' = Append(errOut, msg)
    /\ pc' = "setup"
    /\ UNCHANGED <<exitCode, scaleArg, pipes, started, defers>>

\* A start-up step that fails: its message on stderr, os.Exit(1).
StartupFails(msg) ==
    /\ errOut' = Append(errOut, msg)
    /\ Exit(1)
    /\ UNCHANGED <<scaleArg, pipes, started, defers>>

\* stdout, err := cmd.StdoutPipe()
StdoutPipe ==
    /\ pc = "stdoutPipe"
    /\ \/ /\ pipes' = pipes \cup {"stdout"}
          /\ pc' = "stderrPipe"
          /\ UNCHANGED <<errOut, exitCode, scaleArg, started, defers>>
       \/ StartupFails("Error creating pipe")
    /\ UNCHANGED <<envVars, glyphVars, readVars, timeVars, killIssued, drainer, WIDTH,
                   HEIGHT, frameCount, tty, interruptedAt>>

\* stderr, err := cmd.StderrPipe()
StderrPipe ==
    /\ pc = "stderrPipe"
    /\ \/ /\ pipes' = pipes \cup {"stderr"}
          /\ pc' = "start"
          /\ UNCHANGED <<errOut, exitCode, scaleArg, started, defers>>
       \/ StartupFails("Error creating stderr pipe")
    /\ UNCHANGED <<envVars, glyphVars, readVars, timeVars, killIssued, drainer, WIDTH,
                   HEIGHT, frameCount, tty, interruptedAt>>

\* cmd.Start(); defer cmd.Process.Kill()
StartDecoder ==
    /\ pc = "start"
    /\ \/ /\ started' = TRUE
          /\ defers' = Append(defers, "kill")
          /\ pc' = "setup"
          /\ UNCHANGED <<errOut, exitCode, scaleArg, pipes>>
       \/ StartupFails("Error starting ffmpeg")
    /\ UNCHANGED <<envVars, glyphVars, readVars, timeVars, killIssued, drainer, WIDTH,
                   HEIGHT, frameCount, tty, interruptedAt>>

\* go func() { ... stderr.Read(buf) ... }(); reader := bufio.NewReader(stdout);
\* enter the alternate screen, hide the cursor; defer the restore; frameCount := 0
EnterPlayback ==
    /\ pc = "setup"
    /\ drainer' = "running"
    /\ buf' = <<>>
    /\ tty' = Append(tty, EnterAlt)
    /\ defers' = Append(defers, "restore")
    /\ frameCount' = 0
    /\ pc' = "loop"
    /\ UNCHANGED <<envVars, glyphVars, pos, data, nreads, calls, lastRead, img, timeVars,
                   scaleArg, pipes, started, killIssued, WIDTH, HEIGHT, errOut,
                   exitCode, interruptedAt>>

Min(a, b) == IF a < b THEN a ELSE b

\* len(data): the bytes of one frame.
FrameBytes == WIDTH * HEIGHT * 3

\* The deferred calls run (main returns or panics), then the process ends.
Unwind(code) ==
    /\ tty' = TtyAfterDefers
    /\ killIssued' = KillAfterDefers
    /\ Exit(code)

\* startTime := time.Now(); readRawFrame: img := image.NewRGBA(...);
\* data := make([]byte, width*height*3); n := 0.  make panics on a negative
\* length; with no byte to read the loop is skipped and the frame returned.
\* Only differences of clock readings are used (time.Since), so the clock is
\* counted from this reading on and the time since the previous one is kept
\* in spacing.
LoopHead ==
    /\ pc = "loop"
    /\ calls < MaxCalls
    /\ spacing' = IF calls = 0 THEN -1 ELSE now - startTime
    /\ now' = 0
    /\ startTime' = 0
    /\ sleepFor' = 0 /\ sleeps' = 0
    /\ calls' = calls + 1
    /\ nreads' = 0
    /\ data' = <<>>
    /\ IF FrameBytes < 0
       THEN /\ errOut' = Append(errOut, "panic: makeslice: len out of range")
            /\ Unwind(2)
            /\ UNCHANGED <<img, lastRead>>
       ELSE /\ IF FrameBytes = 0
               THEN img' = FrameImage(<<>>, WIDTH, HEIGHT) /\ lastRead' = "frame"
                    /\ pc' = "render"
               ELSE pc' = "read" /\ UNCHANGED <<img, lastRead>>
            /\ UNCHANGED <<tty, killIssued, errOut, exitCode>>
    /\ UNCHANGED <<envVars, glyphVars, pos, buf, elapsed, scaleArg, pipes, started,
                   drainer, defers, WIDTH, HEIGHT, frameCount, interruptedAt>>

\* len(data[n:]), the room reader.Read is given.
Want == FrameBytes - Len(data)

\* The largest read of the pipe bufio.Reader.Read makes: into the caller's
\* slice when that is at least as large as its buffer, into its buffer
\* otherwise.
PipeReadMax == IF Want >= BufSize THEN Want ELSE BufSize

\* ReaderRead with the bytes read past the caller's room thrown away instead
\* of kept in the buffer.
ReaderReadDropsRest(k) ==
    IF buf # <<>>
    THEN LET c == Min(Want, Len(buf))
         IN  [got |-> SubSeq(buf, 1, c), buf |-> <<>>, pos |-> pos]
    ELSE LET chunk == SubSeq(stream, pos + 1, pos + k)
             c == Min(Want, k)
         IN  [got |-> SubSeq(chunk, 1, c), buf |-> <<>>, pos |-> pos + k]

\* reader.Read(data[n:]) when the pipe has bytes or the buffer is not empty:
\* a non-empty buffer is copied from, without a read of the pipe; otherwise
\* one read of the pipe returns k bytes (as many as the pipe has ready).
ReaderRead(k) ==
    IF buf # <<>>
    THEN LET c == Min(Want, Len(buf))
         IN  [got |-> SubSeq(buf, 1, c), buf |-> SubSeq(buf, c + 1, Len(buf)), pos |-> pos]
    ELSE LET chunk == SubSeq(stream, pos + 1, pos + k)
             c == Min(Want, k)
         IN  IF Want >= BufSize
             THEN [got |-> chunk, buf |-> <<>>, pos |-> pos + k]
             ELSE [got |-> SubSeq(chunk, 1, c), buf |-> SubSeq(chunk, c + 1, k),
                   pos |-> pos + k]

\* One pass of readRawFrame's loop in which reader.Read returns bytes; when
\* they complete the frame the pixels are set and the image is returned.
ReadChunk ==
    /\ pc = "read"
    /\ buf # <<>> \/ pos < Len(stream)
    /\ \E k \in (IF buf # <<>> THEN {0} ELSE 1..Min(Len(stream) - pos, PipeReadMax)),
          d \in (IF buf # <<>> THEN {0} ELSE {x \in ReadDelays : now + x <= MaxElapsed}) :
          LET r == ReaderRead(k)
              nd == data \o r.got
          IN  /\ data' = nd
              /\ buf' = r.buf
              /\ pos' = r.pos
              /\ now' = now + d
              /\ IF Len(nd) = FrameBytes
                 THEN img' = FrameImage(nd, WIDTH, HEIGHT) /\ lastRead' = "frame"
                      /\ pc' = "render"
                 ELSE pc' = "read" /\ UNCHANGED <<img, lastRead>>
    /\ nreads' = nreads + 1
    /\ UNCHANGED <<envVars, glyphVars, calls, startTime, elapsed, spacing, sleepFor,
                   sleeps, procVars, WIDTH, HEIGHT, frameCount, tty, errOut, exitCode,
                   interruptedAt>>

\* ReadError that keeps a partial frame: the bytes read before the error are
\* padded with zeros and returned as a frame.
ReadErrorKeepsPartial ==
    /\ pc = "read"
    /\ buf = <<>> /\ pos = Len(stream)
    /\ nreads' = nreads + 1
    /\ IF data # <<>>
       THEN /\ img' = FrameImage(data \o [i \in 1..Want |-> 0], WIDTH, HEIGHT)
            /\ lastRead' = "frame"
            /\ pc' = "render"
            /\ UNCHANGED <<tty, errOut, exitCode>>
       ELSE /\ lastRead' = "err"
            /\ img' = img
            /\ IF frameCount = 0
               THEN /\ tty' = Append(tty, ExitAlt)
                    /\ errOut' = Append(errOut, "Error: Could not read any frames")
                    /\ Exit(1)
               ELSE /\ pc' = "summary"
                    /\ UNCHANGED <<tty, errOut, exitCode>>
    /\ UNCHANGED <<envVars, glyphVars, pos, buf, data, calls, timeVars, procVars,
                   WIDTH, HEIGHT, frameCount, interruptedAt>>

\* ReadError without the frameCount == 0 branch: every read error breaks out
\* of the loop.
ReadErrorAlwaysBreaks ==
    /\ pc = "read"
    /\ buf = <<>> /\ pos = Len(stream)
    /\ nreads' = nreads + 1
    /\ lastRead' = "err"
    /\ pc' = "summary"
    /\ UNCHANGED <<envVars, glyphVars, pos, buf, data, calls, img, timeVars, procVars,
                   WIDTH, HEIGHT, frameCount, tty, errOut, exitCode, interruptedAt>>

\* reader.Read returns an error (the decoder has closed its output and
\* nothing is buffered): readRawFrame returns nil, err.  main: with no frame
\* played, restore the screen, report, os.Exit(1); else break.
ReadError ==
    /\ pc = "read"
    /\ buf = <<>> /\ pos = Len(stream)
    /\ nreads' = nreads + 1
    /\ lastRead' = "err"
    /\ IF frameCount = 0
       THEN /\ tty' = Append(tty, ExitAlt)
            /\ errOut' = Append(errOut, "Error: Could not read any frames")
            /\ Exit(1)
       ELSE /\ pc' = "summary"
            /\ UNCHANGED <<tty, errOut, exitCode>>
    /\ UNCHANGED <<envVars, glyphVars, pos, buf, data, calls, img, timeVars, procVars,
                   WIDTH, HEIGHT, frameCount, interruptedAt>>

\* RenderFrame with a render that depends on the loop's state: the frame
\* number is written into the frame's text.
RenderFrameNumbered ==
    /\ pc = "render"
    /\ tty' = tty \o <<FrameOut(frameToASCII(img, fused) \o Dec(frameCount)),
                       StatusOut(frameCount)>>
    /\ frameCount' = frameCount + 1
    /\ \E d \in RenderDelays :
          /\ now' = now + d
          /\ elapsed' = now + d - startTime
          /\ IF now + d - startTime < frameDuration
             THEN sleepFor' = frameDuration - (now + d - startTime) /\ pc' = "sleep"
             ELSE sleepFor' = 0 /\ pc' = "loop"
    /\ UNCHANGED <<envVars, glyphVars, readVars, startTime, spacing, sleeps, procVars,
                   WIDTH, HEIGHT, errOut, exitCode, interruptedAt>>

\* RenderFrame with frameCount++ before the status line is written.
RenderFrameCountsFirst ==
    /\ pc = "render"
    /\ tty' = tty \o <<FrameOut(frameToASCII(img, fused)), StatusOut(frameCount + 1)>>
    /\ frameCount' = frameCount + 1
    /\ \E d \in RenderDelays :
          /\ now' = now + d
          /\ elapsed' = now + d - startTime
          /\ IF now + d - startTime < frameDuration
             THEN sleepFor' = frameDuration - (now + d - startTime) /\ pc' = "sleep"
             ELSE sleepFor' = 0 /\ pc' = "loop"
    /\ UNCHANGED <<envVars, glyphVars, readVars, startTime, spacing, sleeps, procVars,
                   WIDTH, HEIGHT, errOut, exitCode, interruptedAt>>

\* RenderFrame with catch-up: a frame whose read already took the whole
\* interval is counted but not written.
RenderFrameDropsLate ==
    /\ pc = "render"
    /\ tty' = IF now - startTime >= frameDuration
              THEN Append(tty, StatusOut(frameCount))
              ELSE tty \o <<FrameOut(frameToASCII(img, fused)), StatusOut(frameCount)>>
    /\ frameCount' = frameCount + 1
    /\ \E d \in RenderDelays :
          /\ now' = now + d
          /\ elapsed' = now + d - startTime
          /\ IF now + d - startTime < frameDuration
             THEN sleepFor' = frameDuration - (now + d - startTime) /\ pc' = "sleep"
             ELSE sleepFor' = 0 /\ pc' = "loop"
    /\ UNCHANGED <<envVars, glyphVars, readVars, startTime, spacing, sleeps, procVars,
                   WIDTH, HEIGHT, errOut, exitCode, interruptedAt>>

\* RenderFrame without the elapsed < frameDuration test: it always sleeps
\* frameDuration - elapsed.
RenderFrameAlwaysSleeps ==
    /\ pc = "render"
    /\ tty' = tty \o <<FrameOut(frameToASCII(img, fused)), StatusOut(frameCount)>>
    /\ frameCount' = frameCount + 1
    /\ \E d \in RenderDelays :
          /\ now' = now + d
          /\ elapsed' = now + d - startTime
          /\ sleepFor' = frameDuration - (now + d - startTime)
          /\ pc' = "sleep"
    /\ UNCHANGED <<envVars, glyphVars, readVars, startTime, spacing, sleeps, procVars,
                   WIDTH, HEIGHT, errOut, exitCode, interruptedAt>>

\* asciiFrame := frameToASCII(img); print it at the home position, then the
\* status line; frameCount++; elapsed := time.Since(startTime); the sleep is
\* decided.
RenderFrame ==
    /\ pc = "render"
    /\ tty' = tty \o <<FrameOut(frameToASCII(img, fused)), StatusOut(frameCount)>>
    /\ frameCount' = frameCount + 1
    /\ \E d \in RenderDelays :
          /\ now' = now + d
          /\ elapsed' = now + d - startTime
          /\ IF now + d - startTime < frameDuration
             THEN sleepFor' = frameDuration - (now + d - startTime) /\ pc' = "sleep"
             ELSE sleepFor' = 0 /\ pc' = "loop"
    /\ UNCHANGED <<envVars, glyphVars, readVars, startTime, spacing, sleeps, procVars,
                   WIDTH, HEIGHT, errOut, exitCode, interruptedAt>>

\* time.Sleep(frameDuration - elapsed): at least that long.
Sleep ==
    /\ pc = "sleep"
    /\ \E over \in 0..MaxOversleep : now' = now + sleepFor + over
    /\ sleeps' = sleeps + 1
    /\ pc' = "loop"
    /\ UNCHANGED <<envVars, glyphVars, readVars, startTime, elapsed, spacing, sleepFor,
                   procVars, WIDTH, HEIGHT, frameCount, tty, errOut, exitCode,
                   interruptedAt>>

\* PrintSummary that leaves the alternate screen before it prints.
PrintSummaryRestoresFirst ==
    /\ pc = "summary"
    /\ tty' = tty \o <<ExitAlt, SummaryOut(frameCount)>>
    /\ pc' = "ack"
    /\ UNCHANGED <<envVars, glyphVars, readVars, timeVars, procVars, WIDTH, HEIGHT,
                   frameCount, errOut, exitCode, interruptedAt>>

\* After the loop: clear the screen and print the summary.
PrintSummary ==
    /\ pc = "summary"
    /\ tty' = Append(tty, SummaryOut(frameCount))
    /\ pc' = "ack"
    /\ UNCHANGED <<envVars, glyphVars, readVars, timeVars, procVars, WIDTH, HEIGHT,
                   frameCount, errOut, exitCode, interruptedAt>>

\* fmt.Scanln() returns and main returns: the deferred calls run, exit code 0.
Acknowledge ==
    /\ pc = "ack"
    /\ Unwind(0)
    /\ UNCHANGED <<envVars, glyphVars, readVars, timeVars, scaleArg, pipes, started,
                   drainer, defers, WIDTH, HEIGHT, frameCount, errOut, interruptedAt>>

\* An interrupt signal (Ctrl+C).  main installs no handler (no signal.Notify),
\* so the Go runtime ends the process at once: no deferred call runs.
Interrupt ==
    /\ pc # "exited"
    /\ interruptedAt' = pc
    /\ Exit(130)
    /\ UNCHANGED <<envVars, glyphVars, readVars, timeVars, procVars, WIDTH, HEIGHT,
                   frameCount, tty, errOut>>

Next ==
    \/ CheckArgs
    \/ ResolveGeometry
    \/ StdoutPipe
    \/ StderrPipe
    \/ StartDecoder
    \/ EnterPlayback
    \/ LoopHead
    \/ ReadChunk
    \/ ReadError
    \/ RenderFrame
    \/ Sleep
    \/ PrintSummary
    \/ Acknowledge
    \/ Interrupt

Spec == Init /\ [][Next]_vars

(***************************************************************************)
(* main on a decoder output in which every pixel is the same, so that      *)
(* every frame is the same pixel grid.                                     *)
(***************************************************************************)
RepeatedStreams ==
    {[i \in 1..n |-> StreamByte(((i - 1) % 3) + 1)] : n \in 0..MaxBytes}

ReplayInit ==
    /\ fused \in BOOLEAN
    /\ nargs = 2
    /\ stream \in RepeatedStreams
    /\ ProgramInit
    /\ pixel = <<0, 0, 0>> /\ glyph = NoGlyph /\ prev = NoPrev

ReplaySpec == ReplayInit /\ [][Next]_vars

(***************************************************************************)
(* main from the moment its first readRawFrame call has returned a frame,  *)
(* for every geometry of up to GridMax columns and rows in which a frame   *)
(* is returned, and several pixel contents.                                *)
(***************************************************************************)
GridMax == 2
GridSeeds == 5

GridStream(seed, n) == [i \in 1..n |-> StreamByte(i + seed)]

GridInit ==
    /\ fused \in BOOLEAN
    /\ nargs = 2
    /\ WIDTH \in 0..GridMax
    /\ HEIGHT \in (-2)..GridMax
    /\ FrameBytes >= 0
    /\ \E seed \in 0..GridSeeds : stream = GridStream(seed, FrameBytes)
    /\ pos = Len(stream)
    /\ now = 0
    /\ pc = "render"
    /\ scaleArg = <<WIDTH, HEIGHT>>
    /\ pipes = {"stdout", "stderr"}
    /\ started = TRUE /\ killIssued = FALSE
    /\ drainer = "running"
    /\ defers = <<"kill", "restore">>
    /\ buf = <<>> /\ data = stream
    /\ nreads = (IF FrameBytes = 0 THEN 0 ELSE 1)
    /\ calls = 1
    /\ lastRead = "frame"
    /\ img = FrameImage(stream, WIDTH, HEIGHT)
    /\ frameCount = 0
    /\ startTime = 0 /\ elapsed = 0 /\ spacing = -1 /\ sleepFor = 0 /\ sleeps = 0
    /\ tty = <<EnterAlt>> /\ errOut = <<>>
    /\ exitCode = -1
    /\ interruptedAt = "none"
    /\ decoder = "run" /\ errPipe = 0 /\ outPipe = 0 /\ diag = 0
    /\ pixel = <<0, 0, 0>> /\ glyph = NoGlyph /\ prev = NoPrev

GridNext == RenderFrame \/ Sleep

GridSpec == GridInit /\ [][GridNext]_vars

(***************************************************************************)
(* The glyph renderer on its own: frameToASCII on a 1 x 1 image holding    *)
(* the pixel, in either build.                                             *)
(***************************************************************************)
GlyphInit ==
    /\ fused \in BOOLEAN
    /\ nargs = 2
    /\ stream = <<>>
    /\ ProgramInit
    /\ pixel \in Channels \X Channels \X Channels
    /\ glyph = NoGlyph
    /\ prev = NoPrev

\* The cell frameToASCII makes of pixel p: its brightness, the index and the
\* glyph brightnessToASCII gives it, and the text of the 1 x 1 image.
Rendered(p) ==
    LET im == FrameImage(p, 1, 1)
        c == im.pix[<<0, 0>>]
        br == Brightness(Chan8(Chan16(c[1])), Chan8(Chan16(c[2])),
                         Chan8(Chan16(c[3])), fused)
    IN  [idx |-> GlyphIndex(br), char |-> brightnessToASCII(br),
         text |-> frameToASCII(im, fused), lum |-> br]

RenderPixel ==
    /\ glyph = NoGlyph
    /\ glyph' = Rendered(pixel)
    /\ UNCHANGED <<envVars, pixel, prev, readVars, timeVars, procVars, pc, WIDTH, HEIGHT,
                   frameCount, tty, errOut, exitCode, interruptedAt>>

GlyphNext == RenderPixel

GlyphSpec == GlyphInit /\ [][GlyphNext]_vars

(***************************************************************************)
(* The glyph renderer on two pixels that differ in one channel: the pixel  *)
(* is rendered, then one of its channels is raised and it is rendered      *)
(* again.                                                                  *)
(***************************************************************************)
\* The channel values tried: each MonoStep-th value and the one after it,
\* and 255.
MonoStep == 51
MonoChannels == {c \in 0..255 : c % MonoStep \in {0, 1}} \cup {255}

MonoInit ==
    /\ fused \in BOOLEAN
    /\ nargs = 2
    /\ stream = <<>>
    /\ ProgramInit
    /\ pixel \in MonoChannels \X MonoChannels \X MonoChannels
    /\ glyph = NoGlyph
    /\ prev = NoPrev

RaiseChannel ==
    /\ glyph # NoGlyph
    /\ prev = NoPrev
    /\ \E ch \in 1..3, v \in MonoChannels :
          /\ v > pixel[ch]
          /\ pixel' = [pixel EXCEPT ![ch] = v]
          /\ glyph' = Rendered([pixel EXCEPT ![ch] = v])
    /\ prev' = [pixel |-> pixel, glyph |-> glyph]
    /\ UNCHANGED <<envVars, readVars, timeVars, procVars, pc, WIDTH, HEIGHT,
                   frameCount, tty, errOut, exitCode, interruptedAt>>

MonoNext == RenderPixel \/ RaiseChannel

MonoSpec == MonoInit /\ [][MonoNext]_vars

(***************************************************************************)
(* The decoder, the goroutine that drains its stderr, and main, from the   *)
(* moment cmd.Start() has succeeded (main.go:113-128).  The decoder writes *)
(* diagnostics to its stderr pipe and frame bytes to its stdout pipe; a    *)
(* write to a full pipe blocks until a reader has made room.               *)
(***************************************************************************)
\* The capacity of a pipe (64 KiB on Linux), the size of the goroutine's
\* buffer (4096), and the diagnostics the decoder writes at most, scaled.
PipeCap == 2
DrainBuf == 2
MaxDiag == 4
\* The frame bytes the decoder writes at most in this specification.
MaxOut == 3

DrainInit ==
    /\ fused = FALSE
    /\ nargs = 2
    /\ stream \in {st \in Streams : Len(st) <= MaxOut}
    /\ pos = 0
    /\ now = 0
    /\ pc = "setup"
    /\ \E size \in TermSizes :
          /\ WIDTH = getTerminalSize(size)[1]
          /\ HEIGHT = getTerminalSize(size)[2]
          /\ WIDTH = 1 /\ HEIGHT = 1
    /\ scaleArg = <<WIDTH, HEIGHT>>
    /\ pipes = {"stdout", "stderr"}
    /\ started = TRUE /\ killIssued = FALSE
    /\ drainer = "none"
    /\ defers = <<"kill">>
    /\ buf = <<>> /\ data = <<>> /\ nreads = 0 /\ calls = 0
    /\ lastRead = "none"
    /\ img = NoImage
    /\ frameCount = 0
    /\ startTime = 0 /\ elapsed = 0 /\ spacing = -1 /\ sleepFor = 0 /\ sleeps = 0
    /\ tty = <<>> /\ errOut = <<>>
    /\ exitCode = -1
    /\ interruptedAt = "none"
    /\ decoder = "run" /\ errPipe = 0 /\ outPipe = 0 /\ diag = 0
    /\ pixel = <<0, 0, 0>> /\ glyph = NoGlyph /\ prev = NoPrev

mainVars == <<fused, nargs, stream, glyphVars, readVars, timeVars, procVars, pc, WIDTH,
              HEIGHT, frameCount, tty, errOut, exitCode, interruptedAt>>

\* Frame bytes the decoder has written to its stdout so far.
Written == pos + Len(buf) + outPipe

\* The decoder starts a write of diagnostics or of a frame byte, or, with
\* all its frames written, closes its outputs and ends.
DecoderStep ==
    /\ decoder = "run"
    /\ \/ diag < MaxDiag /\ decoder' = "writeErr"
       \/ Written < Len(stream) /\ decoder' = "writeOut"
       \/ Written = Len(stream) /\ decoder' = "closed"
    /\ UNCHANGED <<errPipe, outPipe, diag, mainVars>>

\* The decoder's write to stderr completes once the pipe has room.
DecoderWritesErr ==
    /\ decoder = "writeErr"
    /\ errPipe < PipeCap
    /\ errPipe' = errPipe + 1
    /\ diag' = diag + 1
    /\ decoder' = "run"
    /\ UNCHANGED <<outPipe, mainVars>>

\* The decoder's write to stdout completes once the pipe has room.
DecoderWritesOut ==
    /\ decoder = "writeOut"
    /\ outPipe < PipeCap
    /\ outPipe' = outPipe + 1
    /\ decoder' = "run"
    /\ UNCHANGED <<errPipe, diag, mainVars>>

\* The goroutine with its loop left after the first read.
DrainOnce ==
    /\ drainer = "running"
    /\ pc # "exited"
    /\ errPipe > 0
    /\ \E k \in 1..Min(errPipe, DrainBuf) : errPipe' = errPipe - k
    /\ drainer' = "done"
    /\ UNCHANGED <<decoder, outPipe, diag, fused, nargs, stream, glyphVars, readVars,
                   timeVars, scaleArg, pipes, started, killIssued, defers, pc, WIDTH,
                   HEIGHT,
                   frameCount, tty, errOut, exitCode, interruptedAt>>

\* for { stderr.Read(buf) }: one pass of the goroutine's loop that finds
\* bytes in the pipe and takes up to len(buf) of them; what it read is
\* dropped and the result of Read is not looked at.  The goroutine takes no
\* lock and waits on nothing of main's; it runs as long as the process does.
Drain ==
    /\ drainer = "running"
    /\ pc # "exited"
    /\ errPipe > 0
    /\ \E k \in 1..Min(errPipe, DrainBuf) : errPipe' = errPipe - k
    /\ UNCHANGED <<decoder, outPipe, diag, fused, nargs, stream, glyphVars, readVars,
                   timeVars, procVars, pc, WIDTH, HEIGHT, frameCount, tty, errOut,
                   exitCode, interruptedAt>>

\* reader.Read in readRawFrame, seen from the pipe: main takes bytes the
\* decoder has written to its stdout.
ReadPipe ==
    /\ pc = "loop"
    /\ outPipe > 0
    /\ \E k \in 1..outPipe : outPipe' = outPipe - k /\ pos' = pos + k
    /\ UNCHANGED <<decoder, errPipe, diag, fused, nargs, stream, glyphVars, buf, data,
                   nreads, calls, lastRead, img, timeVars, procVars, pc, WIDTH, HEIGHT,
                   frameCount, tty, errOut, exitCode, interruptedAt>>

DrainNext ==
    \/ EnterPlayback
    \/ DecoderStep
    \/ DecoderWritesErr
    \/ DecoderWritesOut
    \/ Drain
    \/ ReadPipe
    \/ Interrupt

\* The operating system runs the decoder and the Go scheduler runs main and
\* the goroutine: none of them waits for ever while it can take a step.
DrainSpec ==
    /\ DrainInit
    /\ [][DrainNext]_vars
    /\ WF_vars(EnterPlayback)
    /\ WF_vars(Drain)
    /\ WF_vars(DecoderStep)
    /\ WF_vars(DecoderWritesErr)
    /\ WF_vars(DecoderWritesOut)

(***************************************************************************)
(* Properties.                                                             *)
(***************************************************************************)
IsFrame(e) == e.kind = "frame"
IsSummary(e) == e.kind = "summary"

\* The frames written to the terminal, in the order written.
FramesWritten == SelectSeq(tty, IsFrame)

Printed(kind) == \E i \in 1..Len(tty) : tty[i].kind = kind
Reported(msg) == \E i \in 1..Len(errOut) : errOut[i] = msg

\* Bytes [(i-1)*FrameBytes, i*FrameBytes) of the decoder's output.
NthFrameBytes(i) == SubSeq(stream, (i - 1) * FrameBytes + 1, i * FrameBytes)

NoFrames == "Error: Could not read any frames"

\* C1: a read error returned by the very first readRawFrame call (frameCount
\* is 0 exactly then) is fatal: the "could not read any frames" error is
\* reported, no frame is rendered, the exit code is 1.  A read error after at
\* least one frame ends the loop normally: no such error is reported, main goes
\* on to the summary, and it exits with code 0 unless it is interrupted.
C1_FirstReadErrorIsFatal ==
    lastRead = "err" =>
        /\ frameCount = 0 <=> calls = 1
        /\ frameCount = 0 =>
              /\ pc = "exited" /\ exitCode = 1
              /\ Reported(NoFrames)
              /\ FramesWritten = <<>>
              /\ ~Printed("summary")
        /\ frameCount > 0 =>
              /\ pc \in {"summary", "ack", "exited"}
              /\ ~Reported(NoFrames)
              /\ pc = "ack" => Printed("summary")
              /\ (pc = "exited" /\ interruptedAt = "none") =>
                    exitCode = 0 /\ Printed("summary")

C1_Witness ==
    lastRead = "err" /\ calls = 1 /\ pc = "exited" /\ exitCode = 1 /\ Len(stream) > 0

\* C2: once the alternate screen has been entered, the exit sequence is
\* written before the process ends, on every exit path: clean completion, the
\* no-frames exit, and an interrupt during the frame read, the render or the
\* sleep.
C2_RestoredOnEveryExit ==
    (/\ pc = "exited"
     /\ Printed("enterAlt")
     /\ interruptedAt \in {"none", "read", "render", "sleep"})
        => Printed("exitAlt")

\* C3: readRawFrame returns a frame only once exactly width*height*3 bytes are
\* accumulated, and whatever the sizes of the reads that delivered them, the
\* frame its i-th call returns is the image of bytes [(i-1)*S, i*S) of the
\* stream: the bytes accumulated so far are always the next bytes of the
\* stream, and those read ahead wait in the buffer.
C3_FramesIndependentOfChunking ==
    /\ pc = "read" =>
          /\ Len(data) < FrameBytes
          /\ data = SubSeq(stream, (calls - 1) * FrameBytes + 1,
                           (calls - 1) * FrameBytes + Len(data))
          /\ buf = SubSeq(stream, pos - Len(buf) + 1, pos)
          /\ pos = (calls - 1) * FrameBytes + Len(data) + Len(buf)
    /\ (pc = "render" /\ lastRead = "frame") =>
          /\ Len(data) = FrameBytes
          /\ data = NthFrameBytes(calls)
          /\ img = FrameImage(NthFrameBytes(calls), WIDTH, HEIGHT)

\* The second frame of six bytes, returned after six reads of one byte.
C3_Witness ==
    pc = "render" /\ calls = 2 /\ FrameBytes = 6 /\ nreads = 6

\* C4: when the decoder delivers exactly k >= 1 complete frames and closes,
\* exactly k frames are rendered, the summary reports k, and main exits with
\* code 0 after the acknowledgment.
C4_ExactlyKFrames ==
    \A k \in 1..MaxBytes :
        (calls >= 1 /\ Len(stream) = k * FrameBytes) =>
            /\ frameCount <= k
            /\ Len(FramesWritten) <= k
            /\ pc = "ack" => frameCount = k /\ tty[Len(tty)] = SummaryOut(k)
            /\ (pc = "exited" /\ interruptedAt = "none") =>
                  /\ exitCode = 0
                  /\ Len(FramesWritten) = k
                  /\ \E i \in 1..Len(tty) : tty[i] = SummaryOut(k)

\* C5: once the decoder has been started, Kill is issued on every path by
\* which main ends: clean completion, the no-frames exit, an interrupt during
\* playback.
C5_KilledOnEveryTeardown ==
    (/\ pc = "exited"
     /\ started
     /\ interruptedAt \in {"none", "read", "render", "sleep"})
        => killIssued

\* C6 as claimed: at end-of-stream after at least one frame the screen is
\* restored first: whenever the summary is on the terminal, the exit sequence
\* was written before it.
C6_RestoredBeforeSummary ==
    \A i \in 1..Len(tty) :
        IsSummary(tty[i]) => \E j \in 1..(i - 1) : tty[j].kind = "exitAlt"

\* C6 as amended: the summary (with the total frame count) is written while
\* the alternate screen is still on; main then waits for the acknowledgment
\* with the summary the last thing written; the exit sequence is written only
\* after the acknowledgment, and then the process ends with code 0.
C6_SummaryThenAckThenRestore ==
    /\ \A i \in 1..Len(tty) :
          IsSummary(tty[i]) =>
              /\ frameCount >= 1 /\ tty[i] = SummaryOut(frameCount)
              /\ \A j \in 1..(i - 1) : tty[j].kind # "exitAlt"
    /\ pc = "ack" => tty[Len(tty)] = SummaryOut(frameCount)
    /\ (pc = "exited" /\ Printed("summary") /\ interruptedAt = "none") =>
          /\ exitCode = 0
          /\ SubSeq(tty, Len(tty) - 2, Len(tty)) = <<SummaryOut(frameCount), ExitAlt, Newline>>

C6_Witness ==
    pc = "exited" /\ exitCode = 0 /\ frameCount >= 1 /\ Printed("summary")

\* C7: the i-th frame written to the terminal is the render of the i-th
\* complete frame of the decoder's output, for every i: none reordered,
\* duplicated or skipped, also when an iteration takes longer than the frame
\* interval. Stated step by step: the terminal output only grows, the number
\* of frames on it is frameCount, and a step that raises frameCount to i
\* appends exactly one frame, the render of the i-th frame of the stream.
C7_FramesWrittenInStreamOrder ==
    /\ [](Len(FramesWritten) = frameCount)
    /\ [][LET new == SubSeq(tty', Len(tty) + 1, Len(tty'))
               newFrames == SelectSeq(new, IsFrame)
           IN  /\ Len(tty') >= Len(tty)
               /\ SubSeq(tty', 1, Len(tty)) = tty
               /\ IF frameCount' = frameCount
                  THEN newFrames = <<>>
                  ELSE /\ frameCount' = frameCount + 1
                       /\ newFrames =
                            <<FrameOut(frameToASCII(
                                FrameImage(NthFrameBytes(frameCount'), WIDTH, HEIGHT),
                                fused))>>]_vars

\* Three frames written, the last two iterations each longer than the interval.
C7_Witness ==
    /\ Len(FramesWritten) = 3 /\ FrameBytes > 0
    /\ spacing > frameDuration /\ elapsed > frameDuration

\* C8 as claimed: when elapsed is below the interval, the next iteration
\* starts exactly one interval after this one started.
C8_ExactSpacing ==
    (pc = "loop" /\ calls >= 1 /\ elapsed < frameDuration) =>
        now - startTime = frameDuration

\* C8 as amended: the only sleep of an iteration is time.Sleep(interval -
\* elapsed), made when elapsed < interval, so never negative; time.Sleep
\* returns after at least that long, so the next iteration starts at least one
\* interval after this one; when elapsed >= interval there is no sleep and the
\* next iteration starts at once.
C8_SleepIsRemainder ==
    /\ sleeps <= 1
    /\ pc = "sleep" =>
          /\ sleeps = 0
          /\ elapsed < frameDuration
          /\ sleepFor = frameDuration - elapsed
          /\ sleepFor > 0
    /\ (pc = "loop" /\ calls >= 1) =>
          IF elapsed < frameDuration
          THEN sleeps = 1 /\ now - startTime >= frameDuration
          ELSE sleeps = 0 /\ sleepFor = 0 /\ now - startTime = elapsed
    /\ spacing = -1 \/ spacing >= frameDuration

\* An iteration that slept has ended and the next has started one interval
\* later.
C8_Witness ==
    pc = "read" /\ calls = 2 /\ spacing = frameDuration /\ elapsed < frameDuration

\* C9: the glyph index of every pixel lies in 0..N-1 (N = 10), so the glyph
\* is a character of the gradient.
C9_GlyphIndexInRange ==
    glyph # NoGlyph =>
        /\ glyph.idx \in 0..(Len(ASCII_CHARS) - 1)
        /\ glyph.char = ASCII_CHARS[glyph.idx + 1]

\* A white pixel (luminance 1.0) rendered with the last glyph.
C9_Witness ==
    pixel = <<255, 255, 255>> /\ glyph.idx = Len(ASCII_CHARS) - 1

\* C10: pixel (255,255,255) is rendered with the glyph at index 9, '@', and
\* pixel (0,0,0) with the glyph at index 0, a space.
C10_WhiteLastBlackFirst ==
    glyph # NoGlyph =>
        /\ pixel = <<255, 255, 255>> => glyph.idx = 9 /\ glyph.char = "@"
        /\ pixel = <<0, 0, 0>> => glyph.idx = 0 /\ glyph.char = " "

\* a <= b for two float64 values.
FixLe(a, b) ==
    \/ a = b
    \/ \E i \in 1..Len(a) : a[i] < b[i] /\ \A j \in (i + 1)..Len(a) : a[j] = b[j]

\* C11: of two pixels that differ only in one of R, G, B, the one with the
\* larger value of that channel has brightness greater than or equal to the
\* other's and a glyph index greater than or equal to the other's.
C11_GlyphMonotonic ==
    prev # NoPrev =>
        /\ FixLe(prev.glyph.lum, glyph.lum)
        /\ prev.glyph.idx <= glyph.idx

\* Green raised from 0 to 255 on a fusing build: a denser glyph.
C11_Witness ==
    /\ prev # NoPrev
    /\ fused
    /\ prev.pixel = <<255, 0, 255>> /\ pixel = <<255, 255, 255>>
    /\ prev.glyph.idx < glyph.idx

StartupErrors ==
    {"Error creating pipe", "Error creating stderr pipe", "Error starting ffmpeg"}

\* C12: on every start-up failure (missing argument, stdout or stderr pipe
\* not created, decoder not started) main exits with a non-zero code, no frame
\* read was attempted, and the alternate screen was never entered nor the
\* cursor hidden; on a missing argument no pipe and no subprocess was created
\* either.
C12_StartupFailureExitsClean ==
    /\ (nargs < 2 /\ pc # "args" /\ interruptedAt = "none") =>
          /\ pc = "exited" /\ exitCode = 1
          /\ tty = <<Usage>> /\ errOut = <<>>
          /\ pipes = {} /\ ~started /\ drainer = "none"
          /\ calls = 0
    /\ \A msg \in StartupErrors :
          Reported(msg) =>
              /\ pc = "exited" /\ exitCode = 1
              /\ errOut = <<msg>>
              /\ calls = 0 /\ pos = 0
              /\ ~Printed("enterAlt")
              /\ ~started /\ drainer = "none"
    /\ (pc \in {"stdoutPipe", "stderrPipe", "start"}) => tty = <<>> /\ calls = 0

\* The decoder fails to start after both pipes were created.
C12_Witness ==
    /\ Reported("Error starting ffmpeg")
    /\ pipes = {"stdout", "stderr"}
    /\ pc = "exited" /\ exitCode = 1

\* The decoder is in a write to its stderr and the pipe is full.
BlockedOnStderr == decoder = "writeErr" /\ errPipe = PipeCap

\* C13: during playback the goroutine that drains the decoder's stderr is
\* running and can take its step wherever main is (it waits on nothing of
\* main's), and whenever the decoder is blocked in a write to a full stderr
\* pipe while the player runs, the write completes (or the player ends).
C13_DecoderNeverStuckOnStderr ==
    /\ []((pc \notin {"setup", "exited"}) => drainer = "running")
    /\ []((drainer = "running" /\ pc # "exited" /\ errPipe > 0) => ENABLED Drain)
    /\ ((BlockedOnStderr /\ pc # "exited") ~> (~BlockedOnStderr \/ pc = "exited"))

\* The decoder blocked on a full stderr pipe during playback, with frame
\* bytes still to write.
C13_Witness ==
    /\ BlockedOnStderr
    /\ pc = "loop" /\ drainer = "running"
    /\ Written < Len(stream)

\* C14: the geometry of a playback session has width > 0 and height > 0,
\* whatever the terminal size query returned, and the width and height given
\* to the decoder's scale filter are the ones readRawFrame is called with.
C14_GeometryPositive ==
    scaleArg # <<>> =>
        /\ WIDTH > 0 /\ HEIGHT > 0
        /\ scaleArg = <<WIDTH, HEIGHT>>

C16_ByteExactFraming ==
    (pc = "render" /\ lastRead = "frame") =>
        LET S == FrameBytes
            k == calls - 1
        IN  /\ pos - Len(buf) = (k + 1) * S
            /\ \A x \in 0..(WIDTH - 1), y \in 0..(HEIGHT - 1) :
                  LET off == k * S + 3 * (y * WIDTH + x)
                  IN  /\ <<x, y>> \in DOMAIN img.pix
                      /\ img.x0 <= x /\ x < img.x1 /\ img.y0 <= y /\ y < img.y1
                      /\ img.pix[<<x, y>>] =
                            <<stream[off + 1], stream[off + 2], stream[off + 3], 255>>

\* A 2 x 2 frame returned with one byte of the next frame read ahead.
C16_Witness ==
    /\ pc = "render" /\ lastRead = "frame"
    /\ WIDTH = 2 /\ HEIGHT = 2
    /\ Len(buf) = 1

\* What main writes to the terminal from the alternate screen on when the
\* decoder delivers exactly k complete frames and closes, and the exit code.
RECURSIVE FramesText(_)
FramesText(k) ==
    IF k = 0 THEN <<>>
    ELSE FramesText(k - 1)
            \o <<FrameOut(frameToASCII(FrameImage(NthFrameBytes(k), WIDTH, HEIGHT), fused)),
                 StatusOut(k - 1)>>

PlayedTty(k) ==
    <<EnterAlt>> \o FramesText(k)
        \o (IF k = 0 THEN <<ExitAlt>> ELSE <<SummaryOut(k), ExitAlt, Newline>>)

PlayedExitCode(k) == IF k = 0 THEN 1 ELSE 0

\* C17: when the stream ends after at least one but fewer than
\* width*height*3 bytes of a frame, readRawFrame returns the error and no
\* frame: the partial frame is not rendered and frameCount is not raised for
\* it, so a stream of k complete frames and a truncated one is played as the
\* stream of its k complete frames is.
C17_TruncatedFrameDropped ==
    FrameBytes > 0 =>
        LET k == Len(stream) \div FrameBytes
            part == Len(stream) % FrameBytes
        IN  /\ frameCount <= k
            /\ Len(FramesWritten) <= k
            /\ lastRead = "err" =>
                  /\ frameCount = k /\ calls = k + 1
                  /\ Len(data) = part /\ pos = Len(stream)
                  /\ img = (IF k = 0 THEN NoImage
                            ELSE FrameImage(NthFrameBytes(k), WIDTH, HEIGHT))
            /\ (pc = "exited" /\ interruptedAt = "none" /\ calls >= 1) =>
                  /\ tty = PlayedTty(k)
                  /\ exitCode = PlayedExitCode(k)

\* Two complete frames and two bytes of a third, played to the end.
C17_Witness ==
    /\ lastRead = "err" /\ Len(data) = 2
    /\ frameCount = 2
    /\ pc = "exited" /\ exitCode = 0

\* The concatenation of the sequences f[lo], ..., f[hi].
RECURSIVE Concat(_, _, _)
Concat(f, lo, hi) == IF lo > hi THEN <<>> ELSE f[lo] \o Concat(f, lo + 1, hi)

\* The cell of pixel (x, y) of img: the 24-bit foreground colour escape of
\* its R, G, B, then its glyph.
CellOf(x, y) ==
    LET c == img.pix[<<x, y>>]
    IN  <<ESC, "[", "3", "8", ";", "2", ";">> \o Dec(c[1]) \o <<";">> \o Dec(c[2])
            \o <<";">> \o Dec(c[3]) \o <<"m">>
            \o <<ASCII_CHARS[GlyphIndex(Brightness(c[1], c[2], c[3], fused)) + 1]>>

\* Row y of img: its cells from left to right, one colour reset, one line
\* break.
RowOf(y) ==
    Concat([x \in img.x0..(img.x1 - 1) |-> CellOf(x, y)], img.x0, img.x1 - 1)
        \o <<ESC, "[", "0", "m", "\n">>

LineBreaks(text) == Cardinality({i \in 1..Len(text) : text[i] = "\n"})

\* C18: the text frameToASCII returns for a width x height grid is its
\* height rows from top to bottom, each row its width cells from left to
\* right (colour escape of the pixel, then its glyph) followed by one colour
\* reset and one line break.
C18_TextIsRowsOfCells ==
    frameCount >= 1 =>
        LET text == FramesWritten[frameCount].text
            body == SubSeq(text, 4, Len(text))
        IN  /\ SubSeq(text, 1, 3) = <<ESC, "[", "H">>
            /\ body = Concat([y \in img.y0..(img.y1 - 1) |-> RowOf(y)], img.y0, img.y1 - 1)
            /\ LineBreaks(body) = img.y1 - img.y0
            /\ HEIGHT >= 0 =>
                  /\ img.x0 = 0 /\ img.y0 = 0
                  /\ img.x1 = WIDTH /\ img.y1 = HEIGHT

\* A 2 x 2 grid rendered: two rows of two cells.
C18_Witness ==
    /\ frameCount = 1
    /\ WIDTH = 2 /\ HEIGHT = 2
    /\ LineBreaks(FramesWritten[1].text) = 2

\* C19: for every geometry getTerminalSize can return and every stream that
\* closes after finitely many bytes, playback ends: every readRawFrame call
\* that returns a frame has taken at least one byte of the stream, so there
\* are at most Len(stream) + 1 calls, and when the loop has been left the
\* completion summary or the fatal no-frames exit has been reached.
C19_PlaybackTerminates ==
    /\ calls <= Len(stream) + 1
    /\ (pc = "exited" /\ interruptedAt = "none" /\ calls >= 1) =>
          Printed("summary") \/ Reported(NoFrames)

IsStatus(e) == e.kind = "status"

\* C20: at the start of every iteration frameCount is the number of frames
\* written so far; it changes only by 1, in the step that writes a frame and
\* then the status line showing the value before the increment, so the status
\* line of the i-th frame shows i-1 and the summary shows the number of
\* frames rendered.
C20_FrameCountCountsFrames ==
    /\ [](/\ frameCount = Len(FramesWritten)
          /\ \A p \in 1..Len(tty) :
                /\ IsFrame(tty[p]) =>
                      /\ p < Len(tty)
                      /\ tty[p + 1] = StatusOut(Len(SelectSeq(SubSeq(tty, 1, p), IsFrame)) - 1)
                /\ IsStatus(tty[p]) => p > 1 /\ IsFrame(tty[p - 1])
                /\ IsSummary(tty[p]) => tty[p].n = Len(FramesWritten))
    /\ [][frameCount' # frameCount =>
            /\ frameCount' = frameCount + 1
            /\ Len(tty') = Len(tty) + 2
            /\ IsFrame(tty'[Len(tty) + 1])
            /\ tty'[Len(tty) + 2] = StatusOut(frameCount)]_vars

\* Three frames played and the summary written.
C20_Witness ==
    /\ pc = "ack"
    /\ frameCount = 3
    /\ tty[Len(tty)] = SummaryOut(3)
    /\ FrameBytes > 0

====
